---- MODULE Spec2Model ----
(***************************************************************************)
(* Paginated scan drivers of the solanapoet repository:                    *)
(*   scripts/track_ultimate_nfts.py  page-based scan with a checkpoint     *)
(*                                   file and a de-duplicating sheet sink  *)
(*   fetch_ultimate_nfts.py          cursor-based scan, appending sink     *)
(*   search_ultimates.py             page-based scan, in-memory matches    *)
(*   search_ultimate.py              page-based scan that stops on a match *)
(* One script runs at a time (variable script); a run may be killed at any *)
(* step and the script started again; the checkpoint file and the sheet    *)
(* outlive a run, every other variable is local to it.                     *)
(* Spec is these runs; LiveSpec is scripts/track_ultimate_nfts.py left to  *)
(* run without a kill; SinkSpec is add_ultimate_nft_to_sheet called by     *)
(* concurrent processes.                                                   *)
(***************************************************************************)
EXTENDS Integers, Sequences, FiniteSets, TLC

VARIABLES
    script,        \* which script runs
    coll,          \* the remote collection (index into Collections)
    runs,          \* runs started so far
    pc,            \* position of the running script ("off": no process)
    outcome,       \* how the last run ended
    page,          \* page (page scripts) / cursor (cursor script; 0 is None)
    next_cursor,   \* fetch_ultimate_nfts.main: next_cursor (0 is None)
    last_date,     \* fetch_nfts_from_collection: last_date
    retries,       \* retries left (track) / attempt (get_nfts_by_collection)
    retry_count,   \* fetch_ultimate_nfts.main: retry_count
    success,       \* fetch_ultimate_nfts.main: success
    idx,           \* index of the next record of the current page
    nAll,          \* len(all_nfts) / total_processed / total_nfts_checked
    found,         \* ultimate_found / len(ultimate_nfts)
    ckpt,          \* checkpoint.json
    sheet,         \* the 'ultimates' sheet: its rows' asset ids, in order
    \* ---- history (not read by the scripts) ----
    reason,        \* why the scan of this run ended ("none" while it runs)
    errPage,       \* the position whose response ended the scan (0: none)
    ckptAtReturn,  \* checkpoint.json when the scan of this run ended
    handed,        \* ids the sink was called for, in any run
    reqs,          \* requests issued per position in this run
    firstReq,      \* first position requested in this run (0: none yet)
    everAbandoned, \* positions given up after retry exhaustion, in any run
    everDone,      \* positions fully processed, in any run
    doneBefore,    \* everDone when a killed run was restarted ({} otherwise)
    doneRun,       \* positions fully processed in this run
    emitLog,       \* <<position, id>> of every Match emitted in this run
    shortSeen,     \* a page shorter than the requested limit was fetched
    reqAfterShort, \* a request was issued after such a page
    clean,         \* no request of this run raised or was retried, no sink call failed
    sinkFails,     \* sink failures so far
    fails,         \* failed requests per position in this run
    savedRun,      \* the positions save_checkpoint wrote in this run, in order
    doneLog,       \* the positions fully processed in this run, in order
    sinkLog,       \* <<id, result>> of every sink call of this run, in order
    lastSave,      \* <<page, last_date>> of the last completed save_checkpoint
    fetched,       \* positions whose request returned records in this run
    \* ---- concurrent calls of add_ultimate_nft_to_sheet ----
    writers,       \* processes calling the sink concurrently (0: see above)
    w_pc,          \* position of each writer in add_ultimate_nft_to_sheet
    nft_address,   \* add_ultimate_nft_to_sheet: nft_address of each writer
    existing_values, \* add_ultimate_nft_to_sheet: the rows each writer read
    raced          \* addresses two writers held unseen rows for at one time

vars == <<script, coll, runs, pc, outcome, page, next_cursor, last_date,
          retries, retry_count, success, idx, nAll, found, ckpt, sheet, reason, errPage,
          ckptAtReturn, handed, reqs, firstReq, everAbandoned, everDone,
          doneBefore, doneRun, emitLog, shortSeen, reqAfterShort, clean,
          sinkFails, fails, savedRun, doneLog, sinkLog, lastSave, fetched, writers,
          w_pc, nft_address, existing_values, raced>>

----------------------------------------------------------------------------
(* Bounds of the model *)
MaxRuns == 2
MaxPage == 4
MaxSinkFails == 1   \* sink calls that fail
MaxWriters == 2     \* concurrent callers of the sink
MaxFailures == 3    \* failed requests of one run at the positions 1..MaxPage

(* Program constants, scaled: a model page holds at most 2 records where   *)
(* the scripts request 1000, and the remote API refuses to paginate beyond *)
(* 3 full pages (6 records) where the real one refuses beyond 500000.      *)
batch_size == 2
PAGINATION_LIMIT == 6
max_retries == 3

Scripts == {"track", "fetch", "search_ultimates", "search_ultimate"}

----------------------------------------------------------------------------
(* Asset records *)
None == "None"

Attr(t, v) == [trait_type |-> t, value |-> v]

Nft(i, attrs) == [id |-> i, attributes |-> attrs]

\* str.lower() on the strings the model uses
Lower(s) ==
    CASE s = "Rarity" -> "rarity"
      [] s = "RARITY" -> "rarity"
      [] s = "Ultimate" -> "ultimate"
      [] s = "ULTIMATE" -> "ultimate"
      [] s = "Common" -> "common"
      [] OTHER -> s

CollA ==
    << << Nft(1, <<Attr("created", "d1"), Attr("rarity", "Ultimate")>>),
          Nft(2, <<Attr("rarity", "Common")>>) >>,
       << Nft(3, <<Attr("created", "d2")>>) >> >>

CollB ==
    << << Nft(1, <<Attr("background", "red")>>),
          Nft(2, <<Attr("Rarity", "ULTIMATE"), Attr("created", "d1")>>) >>,
       << Nft(3, << >>), Nft(4, <<Attr("rarity", "Common")>>) >>,
       << Nft(5, <<Attr("rarity", "ultimate")>>),
          Nft(6, <<Attr("created", "d2")>>) >>,
       << Nft(7, << >>), Nft(8, << >>) >> >>

CollC ==
    << << Nft(1, <<Attr("RARITY", "Ultimate")>>) >> >>

\* an asset with two matching attributes next to a plain one; an asset whose
\* first rarity attribute is not the matching one, one with the matching
\* value under another trait, and one without attributes
CollD ==
    << << Nft(1, <<Attr("rarity", "ultimate"), Attr("rarity", "Ultimate")>>),
          Nft(2, <<Attr("rarity", "Ultimate")>>) >>,
       << Nft(3, <<Attr("Rarity", "Common"), Attr("rarity", "Ultimate")>>),
          Nft(4, <<Attr("tier", "Ultimate")>>) >>,
       << Nft(5, << >>) >> >>

Collections == <<CollA, CollB, CollC, CollD>>

\* the items the remote API holds at position p of collection c
Items(c, p) ==
    IF p \in 1..Len(Collections[c]) THEN Collections[c][p] ELSE << >>

\* the remote API refuses page p when p * limit goes beyond the depth limit
DepthExceeded(p) == p * batch_size > PAGINATION_LIMIT

----------------------------------------------------------------------------
(* scripts/track_ultimate_nfts.py: the record filter *)

\* created_date after the attribute loop: the value of the last attribute
\* whose trait_type is exactly 'created'
CreatedDate(attrs) ==
    LET S == {i \in 1..Len(attrs) : attrs[i].trait_type = "created"}
    IN IF S = {} THEN None
       ELSE attrs[CHOOSE i \in S : \A j \in S : j <= i].value

\* a filter that looks at the attribute's value only
IsUltimateByValue(attrs) ==
    \E i \in 1..Len(attrs) : Lower(attrs[i].value) = "ultimate"

\* is_ultimate after the attribute loop
IsUltimate(attrs) ==
    \E i \in 1..Len(attrs) :
        /\ attrs[i].trait_type # "created"
        /\ Lower(attrs[i].trait_type) = "rarity"
        /\ Lower(attrs[i].value) = "ultimate"

----------------------------------------------------------------------------
(* checkpoint.json *)

\* json.dump of last_date: None is written as null, a string as a JSON string
JsonDump(v) ==
    IF v = None THEN [type |-> "null", text |-> "null"]
    ELSE [type |-> "string", text |-> v]

\* json.load of the 'last_date' member
JsonLoad(j) == IF j.type = "null" THEN None ELSE j.text

NoFile == [kind |-> "absent", page |-> 0, last_date |-> JsonDump(None)]

\* open(CHECKPOINT_FILE, 'w') has truncated the file, json.dump has not run
TruncatedFile == [kind |-> "truncated", page |-> 0, last_date |-> JsonDump(None)]

\* the file json.dump writes: page as a JSON number, last_date as dumped
CheckpointFile(p, d) == [kind |-> "full", page |-> p, last_date |-> JsonDump(d)]

\* a save_checkpoint called with the page after the one just processed
SavedPositionNext(p) == p + 1

\* a save_checkpoint called with the first page whatever page was processed
SavedPositionFirst(p) == 1

\* the position save_checkpoint is called with after page p was processed
SavedPosition(p) == p

\* what main does with checkpoint.json after the scan returned n records
AfterCleanup(n, f) == IF n >= PAGINATION_LIMIT THEN f ELSE NoFile

----------------------------------------------------------------------------
(* the sheet sink of scripts/track_ultimate_nfts.py *)
\* a check of the rows that never finds the address
RowNeverFound(sh, addr) == FALSE

InSheet(sh, addr) == \E i \in 1..Len(sh) : sh[i] = addr

\* what a call of add_ultimate_nft_to_sheet does for address addr
SinkResult(sh, addr, ok) ==
    IF ~ok THEN "failed" ELSE IF InSheet(sh, addr) THEN "skip" ELSE "written"

\* a sink that appends without looking at the existing rows
append_without_check(sh, addr, ok) == IF ok THEN Append(sh, addr) ELSE sh

\* the sheet after a call that read the rows 'read' while the sheet now
\* holds 'sh': the address is appended unless the rows read show it
add_ultimate_nft_to_sheet_rows(read, sh, addr, ok) ==
    IF ~ok THEN sh
    ELSE IF InSheet(read, addr) THEN sh
    ELSE Append(sh, addr)

\* ok: the sheet service answered both the read and the append
add_ultimate_nft_to_sheet(sh, addr, ok) ==
    IF ~ok THEN sh
    ELSE IF InSheet(sh, addr) THEN sh
    ELSE Append(sh, addr)

----------------------------------------------------------------------------
NoReqs == [p \in 1..MaxPage |-> 0]

\* the variables of one run, as a new process finds them
FreshRun ==
    /\ next_cursor' = 0
    /\ last_date' = None
    /\ retries' = 0
    /\ retry_count' = 0
    /\ success' = FALSE
    /\ idx' = 0
    /\ nAll' = 0
    /\ found' = 0
    /\ reason' = "none"
    /\ errPage' = 0
    /\ ckptAtReturn' = NoFile
    /\ reqs' = NoReqs
    /\ firstReq' = 0
    /\ doneRun' = {}
    /\ emitLog' = << >>
    /\ shortSeen' = FALSE
    /\ reqAfterShort' = FALSE
    /\ clean' = TRUE
    /\ fails' = NoReqs
    /\ savedRun' = << >>
    /\ doneLog' = << >>
    /\ sinkLog' = << >>
    /\ fetched' = {}

\* no script has run: an empty sheet, no checkpoint file, empty histories
NoRun ==
    /\ runs = 0
    /\ pc = "off"
    /\ outcome = "none"
    /\ page = 0
    /\ next_cursor = 0
    /\ last_date = None
    /\ retries = 0
    /\ retry_count = 0
    /\ success = FALSE
    /\ idx = 0
    /\ nAll = 0
    /\ found = 0
    /\ ckpt = NoFile
    /\ sheet = << >>
    /\ reason = "none"
    /\ errPage = 0
    /\ ckptAtReturn = NoFile
    /\ handed = {}
    /\ reqs = NoReqs
    /\ firstReq = 0
    /\ everAbandoned = {}
    /\ everDone = {}
    /\ doneBefore = {}
    /\ doneRun = {}
    /\ emitLog = << >>
    /\ shortSeen = FALSE
    /\ reqAfterShort = FALSE
    /\ clean = TRUE
    /\ sinkFails = 0
    /\ fails = NoReqs
    /\ savedRun = << >>
    /\ doneLog = << >>
    /\ sinkLog = << >>
    /\ lastSave = << >>
    /\ fetched = {}

\* no call of add_ultimate_nft_to_sheet is in progress
NoWriter ==
    /\ w_pc = [w \in 1..MaxWriters |-> "idle"]
    /\ nft_address = [w \in 1..MaxWriters |-> 0]
    /\ existing_values = [w \in 1..MaxWriters |-> << >>]
    /\ raced = {}

Init ==
    /\ script \in Scripts
    /\ coll \in 1..Len(Collections)
    /\ NoRun
    /\ writers = 0
    /\ NoWriter

\* the first position of each script's main
EntryPoint(s) ==
    CASE s = "track" -> "main"
      [] s = "fetch" -> "f_request"
      [] s = "search_ultimates" -> "s_request"
      [] s = "search_ultimate" -> "u_request"

\* page = 1 of the search scripts, cursor = None of fetch_ultimate_nfts.main;
\* scripts/track_ultimate_nfts.py sets page in load_checkpoint
InitialPage(s) == IF s \in {"search_ultimates", "search_ultimate"} THEN 1 ELSE 0

\* python <script>: a new process
Start ==
    /\ pc = "off"
    /\ runs < MaxRuns
    /\ runs' = runs + 1
    /\ pc' = EntryPoint(script)
    /\ page' = InitialPage(script)
    /\ outcome' = "running"
    /\ FreshRun
    /\ doneBefore' = IF outcome = "killed" THEN everDone ELSE {}
    /\ UNCHANGED <<script, coll, ckpt, sheet, handed, everAbandoned, everDone,
                   sinkFails, lastSave, writers, w_pc, nft_address,
                   existing_values, raced>>

\* the process is killed: only the file and the sheet are left
Kill ==
    /\ pc # "off"
    /\ pc' = "off"
    /\ page' = 0
    /\ outcome' = "killed"
    /\ FreshRun
    /\ UNCHANGED <<script, coll, runs, ckpt, sheet, handed, everAbandoned,
                   everDone, doneBefore, sinkFails, lastSave, writers, w_pc, nft_address,
                   existing_values, raced>>

\* history of a request for position p that failed and is counted by the
\* retry logic, or raised
NoteFailure(p) ==
    fails' = IF p \in 1..MaxPage THEN [fails EXCEPT ![p] = @ + 1] ELSE fails

\* history of a request for position p that returned records
NoteFetched(p) == fetched' = fetched \cup {p}

\* history of one sink call for asset i with result r
NoteSinkCall(i, r) == sinkLog' = Append(sinkLog, <<i, r>>)

\* history of one request for position p
NoteRequest(p) ==
    /\ reqs' = IF p \in 1..MaxPage THEN [reqs EXCEPT ![p] = @ + 1] ELSE reqs
    /\ firstReq' = IF firstReq = 0 THEN p ELSE firstReq
    /\ reqAfterShort' = (reqAfterShort \/ shortSeen)

\* history of the Matches of one record: n Matches of asset i on position p
NoteMatches(p, i, n) ==
    /\ emitLog' = emitLog \o [k \in 1..n |-> <<p, i>>]
    /\ found' = found + n

\* history of a position whose last record has been processed
NoteDone(p) ==
    /\ doneRun' = doneRun \cup {p}
    /\ doneLog' = Append(doneLog, p)
    /\ everDone' = everDone \cup {p}

\* the scan of this run ends for reason r, met at position p
ScanEnds(r, p) ==
    /\ reason' = r
    /\ errPage' = p
    /\ ckptAtReturn' = ckpt

----------------------------------------------------------------------------
(* scripts/track_ultimate_nfts.py *)

\* what the remote API may answer to a getAssetsByGroup request for page p
PageResponses(p) ==
    {"exception"} \cup
    (IF DepthExceeded(p) THEN {"error_depth"}
     ELSE {"items", "error_other", "malformed"})

\* retries after a RequestException with r retries left (r - 1 > 0: the same
\* page again; otherwise the next page starts with a full count)
RetriesAfterException(r) == IF r - 1 > 0 THEN r - 1 ELSE max_retries

\* a retry loop that starts over at page 1 once the retries are used up
PageRestartAfterException(p, r) == IF r - 1 > 0 THEN p ELSE 1

\* page after a RequestException on page p with r retries left
PageAfterException(p, r) == IF r - 1 > 0 THEN p ELSE p + 1

\* main, up to the call of fetch_nfts_from_collection: the sheet service and
\* the header row; any failure returns before the scan
TrackMain ==
    /\ script = "track"
    /\ pc = "main"
    /\ \/ /\ pc' = "load"
          /\ UNCHANGED outcome
       \/ /\ pc' = "off"
          /\ outcome' = "init_failed"
    /\ UNCHANGED <<script, coll, runs, page, next_cursor, last_date, retries,
                   retry_count, success, idx, nAll, found, ckpt, sheet, reason,
                   errPage, ckptAtReturn, handed, reqs, firstReq, everAbandoned,
                   everDone, doneBefore, doneRun, emitLog, shortSeen,
                   reqAfterShort, clean, sinkFails, fails, savedRun, doneLog,
                   sinkLog, lastSave, fetched, writers, w_pc, nft_address,
                   existing_values, raced>>

\* load_checkpoint and the locals of fetch_nfts_from_collection; json.load
\* raises on a truncated file and nothing catches it
TrackLoad ==
    /\ script = "track"
    /\ pc = "load"
    /\ IF ckpt.kind = "truncated"
       THEN /\ pc' = "off"
            /\ outcome' = "crashed"
            /\ UNCHANGED <<page, last_date, retries>>
       ELSE /\ pc' = "request"
            /\ page' = IF ckpt.kind = "full" THEN ckpt.page ELSE 1
            /\ last_date' = IF ckpt.kind = "full"
                            THEN JsonLoad(ckpt.last_date) ELSE None
            /\ retries' = max_retries
            /\ UNCHANGED outcome
    /\ UNCHANGED <<script, coll, runs, next_cursor, retry_count, success, idx,
                   nAll, found, ckpt, sheet, reason, errPage, ckptAtReturn,
                   handed, reqs, firstReq, everAbandoned, everDone, doneBefore,
                   doneRun, emitLog, shortSeen, reqAfterShort, clean, sinkFails,
                   fails, savedRun, doneLog, sinkLog, lastSave, fetched, writers,
                   w_pc, nft_address, existing_values, raced>>

\* the failed requests of this run at the positions 1..n (the model lets a
\* run meet MaxFailures of them; those at the positions past MaxPage are
\* not counted and not limited)
RECURSIVE FailuresCounted(_, _)
FailuresCounted(f, n) == IF n = 0 THEN 0 ELSE f[n] + FailuresCounted(f, n - 1)

\* the page counter has no upper limit; the positions past MaxPage all
\* answer alike (no items, and beyond the depth limit), and MaxPage + 1
\* stands for every one of them
Position(p) == IF p > MaxPage THEN MaxPage + 1 ELSE p

\* one requests.post of the retry loop and the handling of its response, up
\* to the first record of the page; a return of fetch_nfts_from_collection
\* leads to main's clean-up
TrackRequest ==
    /\ script = "track"
    /\ pc = "request"
    /\ NoteRequest(page)
    /\ \E resp \in PageResponses(page) :
        \/ /\ resp = "exception"
           /\ FailuresCounted(fails, MaxPage) < MaxFailures \/ page > MaxPage
           /\ retries' = RetriesAfterException(retries)
           /\ page' = Position(PageAfterException(page, retries))
           /\ everAbandoned' = IF page' = page THEN everAbandoned
                               ELSE everAbandoned \cup {page}
           /\ clean' = FALSE
           /\ NoteFailure(page)
           /\ UNCHANGED <<fetched, pc, idx, reason, errPage, ckptAtReturn, shortSeen>>
        \/ /\ resp = "error_depth"
           /\ ScanEnds("depth_limit", page)
           /\ pc' = "cleanup"
           /\ UNCHANGED <<fetched, fails, page, retries, idx, everAbandoned, shortSeen,
                          clean>>
        \/ /\ resp = "error_other"
           /\ ScanEnds("api_error", page)
           /\ pc' = "cleanup"
           /\ UNCHANGED <<fetched, fails, page, retries, idx, everAbandoned, shortSeen,
                          clean>>
        \/ /\ resp = "malformed"
           /\ ScanEnds("malformed", page)
           /\ pc' = "cleanup"
           /\ UNCHANGED <<fetched, fails, page, retries, idx, everAbandoned, shortSeen,
                          clean>>
        \/ /\ resp = "items"
           /\ Items(coll, page) = << >>
           /\ ScanEnds("natural", page)
           /\ pc' = "cleanup"
           /\ page' = Position(page + 1)
           /\ shortSeen' = TRUE
           /\ UNCHANGED <<fetched, fails, retries, idx, everAbandoned, clean>>
        \/ /\ resp = "items"
           /\ Items(coll, page) # << >>
           /\ NoteFetched(page)
           /\ pc' = "process"
           /\ idx' = 1
           /\ shortSeen' = (shortSeen \/ Len(Items(coll, page)) < batch_size)
           /\ UNCHANGED <<fails, page, retries, reason, errPage, ckptAtReturn,
                          everAbandoned, clean>>
    /\ UNCHANGED <<script, coll, runs, outcome, next_cursor, last_date,
                   retry_count, success, nAll, found, ckpt, sheet, handed,
                   everDone, doneBefore, doneRun, emitLog, sinkFails, savedRun,
                   doneLog, sinkLog, lastSave, writers, w_pc, nft_address,
                   existing_values, raced>>

\* one iteration of 'for nft in batch_nfts'; after the last record the page
\* is fully processed
TrackProcess ==
    /\ script = "track"
    /\ pc = "process"
    /\ LET items == Items(coll, page)
           nft == items[idx]
           created_date == CreatedDate(nft.attributes)
       IN /\ last_date' = IF created_date # None THEN created_date
                          ELSE last_date
          /\ IF IsUltimate(nft.attributes)
             THEN \E ok \in BOOLEAN :
                    /\ ok \/ sinkFails < MaxSinkFails
                    /\ sheet' = add_ultimate_nft_to_sheet(sheet, nft.id, ok)
                    /\ sinkFails' = IF ok THEN sinkFails ELSE sinkFails + 1
                    /\ clean' = (clean /\ ok)
                    /\ handed' = handed \cup {nft.id}
                    /\ NoteSinkCall(nft.id, SinkResult(sheet, nft.id, ok))
                    /\ NoteMatches(page, nft.id, 1)
             ELSE UNCHANGED <<sheet, sinkFails, clean, handed, emitLog, found,
                              sinkLog>>
          /\ nAll' = nAll + 1
          /\ IF idx < Len(items)
             THEN /\ idx' = idx + 1
                  /\ UNCHANGED <<pc, doneRun, doneLog, everDone>>
             ELSE /\ idx' = 0
                  /\ pc' = "save_open"
                  /\ NoteDone(page)
    /\ UNCHANGED <<script, coll, runs, outcome, page, next_cursor, retries,
                   retry_count, success, ckpt, reason, errPage, ckptAtReturn,
                   reqs, firstReq, everAbandoned, doneBefore, shortSeen,
                   reqAfterShort, fails, savedRun, lastSave, fetched, writers,
                   w_pc, nft_address, existing_values, raced>>

\* save_checkpoint: open(CHECKPOINT_FILE, 'w') truncates the file
TrackSaveOpen ==
    /\ script = "track"
    /\ pc = "save_open"
    /\ ckpt' = TruncatedFile
    /\ pc' = "save_dump"
    /\ UNCHANGED <<script, coll, runs, outcome, page, next_cursor, last_date,
                   retries, retry_count, success, idx, nAll, found, sheet,
                   reason, errPage, ckptAtReturn, handed, reqs, firstReq,
                   everAbandoned, everDone, doneBefore, doneRun, emitLog,
                   shortSeen, reqAfterShort, clean, sinkFails, fails, savedRun,
                   doneLog, sinkLog, lastSave, fetched, writers, w_pc,
                   nft_address, existing_values, raced>>

\* save_checkpoint: json.dump and close; then break, page += 1 and the next
\* iteration's retries = 3
TrackSaveDump ==
    /\ script = "track"
    /\ pc = "save_dump"
    /\ ckpt' = CheckpointFile(SavedPosition(page), last_date)
    /\ savedRun' = Append(savedRun, SavedPosition(page))
    /\ lastSave' = <<SavedPosition(page), last_date>>
    /\ page' = Position(page + 1)
    /\ retries' = max_retries
    /\ pc' = "request"
    /\ UNCHANGED <<script, coll, runs, outcome, next_cursor, last_date,
                   retry_count, success, idx, nAll, found, sheet, reason,
                   errPage, ckptAtReturn, handed, reqs, firstReq, everAbandoned,
                   everDone, doneBefore, doneRun, emitLog, shortSeen,
                   reqAfterShort, clean, sinkFails, fails, doneLog, sinkLog,
                   fetched, writers, w_pc, nft_address, existing_values, raced>>

\* main after fetch_nfts_from_collection returned
TrackCleanup ==
    /\ script = "track"
    /\ pc = "cleanup"
    /\ ckpt' = AfterCleanup(nAll, ckpt)
    /\ pc' = "off"
    /\ outcome' = "returned"
    /\ UNCHANGED <<script, coll, runs, page, next_cursor, last_date, retries,
                   retry_count, success, idx, nAll, found, sheet, reason,
                   errPage, ckptAtReturn, handed, reqs, firstReq, everAbandoned,
                   everDone, doneBefore, doneRun, emitLog, shortSeen,
                   reqAfterShort, clean, sinkFails, fails, savedRun, doneLog,
                   sinkLog, lastSave, fetched, writers, w_pc, nft_address,
                   existing_values, raced>>

----------------------------------------------------------------------------
(* fetch_ultimate_nfts.py *)

\* check_nft_rarity: the lowered value of the first attribute whose lowered
\* trait_type is 'rarity', else "none"
check_nft_rarity(attrs) ==
    LET S == {i \in 1..Len(attrs) : Lower(attrs[i].trait_type) = "rarity"}
    IN IF S = {} THEN "none"
       ELSE Lower(attrs[CHOOSE i \in S : \A j \in S : i <= j].value)

\* log_ultimate_nft: an append with no read of the existing rows
log_ultimate_nft(sh, addr) == Append(sh, addr)

\* the position a cursor stands for (None: the start of the collection)
CursorPosition(c) == IF c = 0 THEN 1 ELSE c

\* what the remote API may answer to a searchAssets request
CursorResponses == {"exception", "error", "malformed", "items"}

\* the cursor the remote API may return with position p: the next position,
\* and on the last page possibly none
NextCursors(c, p) ==
    IF p < Len(Collections[c]) THEN {p + 1} ELSE {0, p + 1}

\* get_nfts_by_collection gives up (returns ([], None)) after a failed
\* attempt number a, counted from 0
AttemptsExhausted(a) == a + 1 >= max_retries

\* one requests.post of get_nfts_by_collection, called from main's retry
\* loop, and what main does with the returned (nfts, next_cursor) up to the
\* first record
FetchRequest ==
    /\ script = "fetch"
    /\ pc = "f_request"
    /\ CursorPosition(page) <= MaxPage
    /\ NoteRequest(CursorPosition(page))
    /\ LET p == CursorPosition(page)
       IN \E resp \in CursorResponses :
        \/ /\ resp \in {"exception", "error"}
           /\ FailuresCounted(fails, MaxPage) < MaxFailures
           /\ ~AttemptsExhausted(retries)
           /\ retries' = retries + 1
           /\ clean' = FALSE
           /\ NoteFailure(p)
           /\ UNCHANGED <<fetched, pc, outcome, next_cursor, success, idx, nAll,
                          reason, errPage, ckptAtReturn, everAbandoned,
                          shortSeen>>
        \/ /\ resp \in {"exception", "error"}
           /\ FailuresCounted(fails, MaxPage) < MaxFailures
           /\ AttemptsExhausted(retries)
           /\ ScanEnds("retries_exhausted", p)
           /\ everAbandoned' = everAbandoned \cup {p}
           /\ pc' = "off"
           /\ outcome' = "returned"
           /\ clean' = FALSE
           /\ NoteFailure(p)
           /\ UNCHANGED <<fetched, next_cursor, retries, success, idx, nAll, shortSeen>>
        \/ /\ resp = "malformed"
           /\ ScanEnds("malformed", p)
           /\ pc' = "off"
           /\ outcome' = "returned"
           /\ UNCHANGED <<fetched, fails, next_cursor, retries, success, idx, nAll,
                          everAbandoned, shortSeen, clean>>
        \/ /\ resp = "items"
           /\ Items(coll, p) = << >>
           /\ ScanEnds("natural", p)
           /\ pc' = "off"
           /\ outcome' = "returned"
           /\ shortSeen' = TRUE
           /\ UNCHANGED <<fetched, fails, next_cursor, retries, success, idx, nAll,
                          everAbandoned, clean>>
        \/ /\ resp = "items"
           /\ Items(coll, p) # << >>
           /\ NoteFetched(p)
           /\ next_cursor' \in NextCursors(coll, p)
           /\ success' = TRUE
           /\ nAll' = nAll + Len(Items(coll, p))
           /\ idx' = 1
           /\ pc' = "f_process"
           /\ shortSeen' = (shortSeen \/ Len(Items(coll, p)) < batch_size)
           /\ UNCHANGED <<fails, outcome, retries, reason, errPage, ckptAtReturn,
                          everAbandoned, clean>>
    /\ UNCHANGED <<script, coll, runs, page, last_date, retry_count, found, ckpt,
                   sheet, handed, everDone, doneBefore, doneRun, emitLog,
                   sinkFails, savedRun, doneLog, sinkLog, lastSave, writers,
                   w_pc, nft_address, existing_values, raced>>

\* one iteration of 'for nft in nfts' of main. An exception of
\* log_ultimate_nft reaches main's except: retry_count += 1, and since
\* success is already True the inner loop ends and the outer loop starts
\* again (retry_count = 0, success = False) with the cursor unchanged.
\* After the last record: return when there is no next cursor, else
\* cursor = next_cursor and the next iteration of the outer loop
FetchProcess ==
    /\ script = "fetch"
    /\ pc = "f_process"
    /\ LET p == CursorPosition(page)
           items == Items(coll, p)
           nft == items[idx]
           ultimate == (check_nft_rarity(nft.attributes) = "ultimate")
       IN \E ok \in BOOLEAN :
            /\ ok \/ (ultimate /\ sinkFails < MaxSinkFails)
            /\ IF ultimate
               THEN /\ handed' = handed \cup {nft.id}
                    /\ sheet' = IF ok THEN log_ultimate_nft(sheet, nft.id)
                                ELSE sheet
                    /\ NoteSinkCall(nft.id, IF ok THEN "written" ELSE "failed")
                    /\ NoteMatches(p, nft.id, IF ok THEN 1 ELSE 0)
               ELSE UNCHANGED <<handed, sheet, emitLog, found, sinkLog>>
            /\ sinkFails' = IF ok THEN sinkFails ELSE sinkFails + 1
            /\ clean' = (clean /\ ok)
            /\ IF ~ok
               THEN /\ pc' = "f_request"
                    /\ idx' = 0
                    /\ retries' = 0
                    /\ retry_count' = 0
                    /\ success' = FALSE
                    /\ UNCHANGED <<page, outcome, reason, errPage,
                                   ckptAtReturn, doneRun, doneLog, everDone>>
               ELSE IF idx < Len(items)
               THEN /\ idx' = idx + 1
                    /\ UNCHANGED <<pc, page, outcome, retries, retry_count,
                                   success, reason, errPage, ckptAtReturn,
                                   doneRun, doneLog, everDone>>
               ELSE IF next_cursor = 0
               THEN /\ NoteDone(p)
                    /\ ScanEnds("natural", p)
                    /\ pc' = "off"
                    /\ outcome' = "returned"
                    /\ UNCHANGED <<page, idx, retries, retry_count, success>>
               ELSE /\ NoteDone(p)
                    /\ page' = next_cursor
                    /\ pc' = "f_request"
                    /\ idx' = 0
                    /\ retries' = 0
                    /\ retry_count' = 0
                    /\ success' = FALSE
                    /\ UNCHANGED <<outcome, reason, errPage, ckptAtReturn>>
    /\ UNCHANGED <<script, coll, runs, next_cursor, last_date, nAll, ckpt, reqs,
                   firstReq, everAbandoned, doneBefore, shortSeen, reqAfterShort,
                   fails, savedRun, lastSave, fetched, writers, w_pc,
                   nft_address, existing_values, raced>>

----------------------------------------------------------------------------
(* search_ultimates.py *)

\* the attributes that produce a Match: trait_type is exactly 'rarity' and
\* the lowered value is 'ultimate'; the loop does not stop at the first
SearchUltimatesMatches(attrs) ==
    {i \in 1..Len(attrs) :
        /\ attrs[i].trait_type = "rarity"
        /\ Lower(attrs[i].value) = "ultimate"}

\* a test that ends the scan on an empty page only
LastPageEmptyOnly(n) == n = 0

\* the test that ends search_ultimates after a page of n items
LastPage(n) == n < batch_size

\* one requests.post of search_ultimates and the handling of its response,
\* up to the first record; every break returns
SearchUltimatesRequest ==
    /\ script = "search_ultimates"
    /\ pc = "s_request"
    /\ page <= MaxPage
    /\ NoteRequest(page)
    /\ \E resp \in PageResponses(page) :
        \/ /\ resp \in {"exception", "error_depth", "error_other", "malformed"}
           /\ ScanEnds(CASE resp = "exception" -> "exception"
                         [] resp = "error_depth" -> "depth_limit"
                         [] resp = "error_other" -> "api_error"
                         [] resp = "malformed" -> "malformed", page)
           /\ pc' = "off"
           /\ outcome' = "returned"
           /\ clean' = (clean /\ resp # "exception")
           /\ fails' = IF resp = "exception"
                       THEN [fails EXCEPT ![page] = @ + 1] ELSE fails
           /\ UNCHANGED <<fetched, idx, nAll, shortSeen>>
        \/ /\ resp = "items"
           /\ Items(coll, page) = << >>
           /\ ScanEnds("natural", page)
           /\ pc' = "off"
           /\ outcome' = "returned"
           /\ shortSeen' = TRUE
           /\ UNCHANGED <<fetched, fails, idx, nAll, clean>>
        \/ /\ resp = "items"
           /\ Items(coll, page) # << >>
           /\ NoteFetched(page)
           /\ nAll' = nAll + Len(Items(coll, page))
           /\ idx' = 1
           /\ pc' = "s_process"
           /\ shortSeen' = (shortSeen \/ Len(Items(coll, page)) < batch_size)
           /\ UNCHANGED <<fails, outcome, reason, errPage, ckptAtReturn, clean>>
    /\ UNCHANGED <<script, coll, runs, page, next_cursor, last_date, retries,
                   retry_count, success, found, ckpt, sheet, handed,
                   everAbandoned, everDone, doneBefore, doneRun, emitLog,
                   sinkFails, savedRun, doneLog, sinkLog, lastSave, writers,
                   w_pc, nft_address, existing_values, raced>>

\* one iteration of 'for nft in items'; after the last record the length
\* test, then page += 1
SearchUltimatesProcess ==
    /\ script = "search_ultimates"
    /\ pc = "s_process"
    /\ LET items == Items(coll, page)
           nft == items[idx]
       IN /\ NoteMatches(page, nft.id,
                         Cardinality(SearchUltimatesMatches(nft.attributes)))
          /\ IF idx < Len(items)
             THEN /\ idx' = idx + 1
                  /\ UNCHANGED <<pc, page, outcome, reason, errPage,
                                 ckptAtReturn, doneRun, doneLog, everDone>>
             ELSE IF LastPage(Len(items))
             THEN /\ NoteDone(page)
                  /\ ScanEnds("natural", page)
                  /\ pc' = "off"
                  /\ outcome' = "returned"
                  /\ UNCHANGED <<idx, page>>
             ELSE /\ NoteDone(page)
                  /\ page' = page + 1
                  /\ idx' = 0
                  /\ pc' = "s_request"
                  /\ UNCHANGED <<outcome, reason, errPage, ckptAtReturn>>
    /\ UNCHANGED <<script, coll, runs, next_cursor, last_date, retries,
                   retry_count, success, nAll, ckpt, sheet, handed, reqs,
                   firstReq, everAbandoned, doneBefore, shortSeen, reqAfterShort,
                   clean, sinkFails, fails, savedRun, sinkLog, lastSave, fetched,
                   writers, w_pc, nft_address, existing_values, raced>>

----------------------------------------------------------------------------
(* search_ultimate.py *)

\* the attributes that produce a Match: trait_type is exactly 'rarity', the
\* value is a string and its lowered form is 'ultimate'
SearchUltimateMatches(attrs) ==
    {i \in 1..Len(attrs) :
        /\ attrs[i].trait_type = "rarity"
        /\ Lower(attrs[i].value) = "ultimate"}

\* 'while not found': the loop goes on after a page with n Matches
KeepSearching(n) == n = 0

\* one requests.post of search_ultimate_nfts and the handling of its
\* response, up to the first record. requests.post stands outside the try: a
\* transport failure ends the process. A response with no result or items
\* raises KeyError inside the try: break. An empty page has no Match and is
\* shorter than 1000: break
SearchUltimateRequest ==
    /\ script = "search_ultimate"
    /\ pc = "u_request"
    /\ page <= MaxPage
    /\ NoteRequest(page)
    /\ \E resp \in PageResponses(page) :
        \/ /\ resp = "exception"
           /\ ScanEnds("exception", page)
           /\ pc' = "off"
           /\ outcome' = "crashed"
           /\ clean' = FALSE
           /\ NoteFailure(page)
           /\ UNCHANGED <<fetched, idx, found, shortSeen>>
        \/ /\ resp \in {"error_depth", "error_other", "malformed"}
           /\ ScanEnds(CASE resp = "error_depth" -> "depth_limit"
                         [] resp = "error_other" -> "api_error"
                         [] resp = "malformed" -> "malformed", page)
           /\ pc' = "off"
           /\ outcome' = "returned"
           /\ UNCHANGED <<fetched, fails, idx, found, shortSeen, clean>>
        \/ /\ resp = "items"
           /\ Items(coll, page) = << >>
           /\ ScanEnds("natural", page)
           /\ pc' = "off"
           /\ outcome' = "returned"
           /\ shortSeen' = TRUE
           /\ UNCHANGED <<fetched, fails, idx, found, clean>>
        \/ /\ resp = "items"
           /\ Items(coll, page) # << >>
           /\ NoteFetched(page)
           /\ idx' = 1
           /\ found' = 0
           /\ pc' = "u_process"
           /\ shortSeen' = (shortSeen \/ Len(Items(coll, page)) < batch_size)
           /\ UNCHANGED <<fails, outcome, reason, errPage, ckptAtReturn, clean>>
    /\ UNCHANGED <<script, coll, runs, page, next_cursor, last_date, retries,
                   retry_count, success, nAll, ckpt, sheet, handed,
                   everAbandoned, everDone, doneBefore, doneRun, emitLog,
                   sinkFails, savedRun, doneLog, sinkLog, lastSave, writers,
                   w_pc, nft_address, existing_values, raced>>

\* one iteration of 'for nft in items' (found counts this page's
\* ultimate_nfts); after the last record: found = True when the page had a
\* Match, else break on a short page; page += 1
SearchUltimateProcess ==
    /\ script = "search_ultimate"
    /\ pc = "u_process"
    /\ LET items == Items(coll, page)
           nft == items[idx]
           n == Cardinality(SearchUltimateMatches(nft.attributes))
       IN /\ NoteMatches(page, nft.id, n)
          /\ IF idx < Len(items)
             THEN /\ idx' = idx + 1
                  /\ UNCHANGED <<pc, page, outcome, reason, errPage,
                                 ckptAtReturn, doneRun, doneLog, everDone>>
             ELSE IF ~KeepSearching(found + n)
             THEN /\ NoteDone(page)
                  /\ ScanEnds("found", page)
                  /\ page' = page + 1
                  /\ pc' = "off"
                  /\ outcome' = "returned"
                  /\ UNCHANGED idx
             ELSE IF Len(items) < batch_size
             THEN /\ NoteDone(page)
                  /\ ScanEnds("natural", page)
                  /\ pc' = "off"
                  /\ outcome' = "returned"
                  /\ UNCHANGED <<idx, page>>
             ELSE /\ NoteDone(page)
                  /\ page' = page + 1
                  /\ idx' = 0
                  /\ pc' = "u_request"
                  /\ UNCHANGED <<outcome, reason, errPage, ckptAtReturn>>
    /\ UNCHANGED <<script, coll, runs, next_cursor, last_date, retries,
                   retry_count, success, nAll, ckpt, sheet, handed, reqs,
                   firstReq, everAbandoned, doneBefore, shortSeen, reqAfterShort,
                   clean, sinkFails, fails, savedRun, sinkLog, lastSave, fetched,
                   writers, w_pc, nft_address, existing_values, raced>>

----------------------------------------------------------------------------
Next ==
    \/ Start
    \/ Kill
    \/ TrackMain
    \/ TrackLoad
    \/ TrackRequest
    \/ TrackProcess
    \/ TrackSaveOpen
    \/ TrackSaveDump
    \/ TrackCleanup
    \/ FetchRequest
    \/ FetchProcess
    \/ SearchUltimatesRequest
    \/ SearchUltimatesProcess
    \/ SearchUltimateRequest
    \/ SearchUltimateProcess

Spec == Init /\ [][Next]_vars

----------------------------------------------------------------------------
(* scripts/track_ultimate_nfts.py left to run: the process is not killed    *)
(* and takes its next step as long as it has one                            *)

\* one step of a run of scripts/track_ultimate_nfts.py
TrackRun ==
    \/ TrackMain
    \/ TrackLoad
    \/ TrackRequest
    \/ TrackProcess
    \/ TrackSaveOpen
    \/ TrackSaveDump
    \/ TrackCleanup

LiveInit == Init /\ script = "track"

LiveNext ==
    \/ Start
    \/ TrackRun

LiveSpec == LiveInit /\ [][LiveNext]_vars /\ WF_vars(TrackRun)

----------------------------------------------------------------------------
(* add_ultimate_nft_to_sheet called by concurrent processes: the read of the *)
(* existing rows and the append are two requests to the sheet service       *)

\* the addresses the writers are called with
Addresses == {1, 2}

\* add_ultimate_nft_to_sheet(nft_data) is called: get_google_sheets_service
SinkCall(w) ==
    /\ w_pc[w] = "idle"
    /\ \E a \in Addresses : nft_address' = [nft_address EXCEPT ![w] = a]
    /\ \/ w_pc' = [w_pc EXCEPT ![w] = "get"]
       \/ w_pc' = [w_pc EXCEPT ![w] = "idle"]
    /\ UNCHANGED <<script, coll, runs, pc, outcome, page, next_cursor, last_date,
                   retries, retry_count, success, idx, nAll, found, ckpt, sheet,
                   reason, errPage, ckptAtReturn, handed, reqs, firstReq,
                   everAbandoned, everDone, doneBefore, doneRun, emitLog,
                   shortSeen, reqAfterShort, clean, sinkFails, fails, savedRun,
                   doneLog, sinkLog, lastSave, fetched, writers, existing_values,
                   raced>>

\* the addresses for which two writers at once hold rows, read for that
\* address, that do not show it
Racing(pcs, addrs, rows) ==
    {a \in Addresses :
        \E v, w \in 1..MaxWriters :
            /\ v # w
            /\ pcs[v] = "append" /\ pcs[w] = "append"
            /\ addrs[v] = a /\ addrs[w] = a
            /\ ~InSheet(rows[v], a) /\ ~InSheet(rows[w], a)}

\* values().get(...).execute(): the writer reads the rows, or the request
\* raises and the call returns
SinkGet(w) ==
    /\ w_pc[w] = "get"
    /\ \/ /\ existing_values' = [existing_values EXCEPT ![w] = sheet]
          /\ w_pc' = [w_pc EXCEPT ![w] = "append"]
       \/ /\ w_pc' = [w_pc EXCEPT ![w] = "idle"]
          /\ UNCHANGED existing_values
    /\ raced' = raced \cup Racing(w_pc', nft_address, existing_values')
    /\ UNCHANGED <<script, coll, runs, pc, outcome, page, next_cursor, last_date,
                   retries, retry_count, success, idx, nAll, found, ckpt, sheet,
                   reason, errPage, ckptAtReturn, handed, reqs, firstReq,
                   everAbandoned, everDone, doneBefore, doneRun, emitLog,
                   shortSeen, reqAfterShort, clean, sinkFails, fails, savedRun,
                   doneLog, sinkLog, lastSave, fetched, writers, nft_address>>

\* the loop over the rows read, then values().append(...).execute() when no
\* row holds the address; the append may raise
SinkAppend(w) ==
    /\ w_pc[w] = "append"
    /\ \E ok \in BOOLEAN :
          sheet' = add_ultimate_nft_to_sheet_rows(existing_values[w], sheet,
                                                  nft_address[w], ok)
    /\ w_pc' = [w_pc EXCEPT ![w] = "idle"]
    /\ UNCHANGED <<script, coll, runs, pc, outcome, page, next_cursor, last_date,
                   retries, retry_count, success, idx, nAll, found, ckpt, reason,
                   errPage, ckptAtReturn, handed, reqs, firstReq, everAbandoned,
                   everDone, doneBefore, doneRun, emitLog, shortSeen,
                   reqAfterShort, clean, sinkFails, fails, savedRun, doneLog,
                   sinkLog, lastSave, fetched, writers, nft_address,
                   existing_values, raced>>

SinkInit ==
    /\ script = "track"
    /\ coll = 1
    /\ NoRun
    /\ writers \in 1..MaxWriters
    /\ NoWriter

SinkNext ==
    \/ \E w \in 1..writers : SinkCall(w)
    \/ \E w \in 1..writers : SinkGet(w)
    \/ \E w \in 1..writers : SinkAppend(w)

SinkSpec == SinkInit /\ [][SinkNext]_vars
----------------------------------------------------------------------------
(* Properties *)

\* the run of the script has returned (it was neither killed nor crashed)
Returned == pc = "off" /\ outcome = "returned"

\* the ids of the records of position p that scripts/track_ultimate_nfts.py
\* hands to the sink
UltimateIds(c, p) ==
    {Items(c, p)[i].id : i \in {j \in 1..Len(Items(c, p)) :
                                  IsUltimate(Items(c, p)[j].attributes)}}

\* C1: in scripts/track_ultimate_nfts.py, when the scan ended on an error
\* object (depth limit or other) or a response without result/items, a
\* checkpoint file that existed at that moment still exists unchanged after
\* main returns.
C1_CheckpointKeptUnlessNaturalEnd ==
    (/\ script = "track"
     /\ Returned
     /\ reason \in {"depth_limit", "api_error", "malformed"}
     /\ ckptAtReturn.kind # "absent")
    => ckpt = ckptAtReturn

\* C2: when the API answers page p with the depth-limit error, the
\* page-based scan issues no further request and the checkpoint retained
\* after the run has position p (runs in which no request raised).
C2_DepthLimitKeepsCheckpointAtErrorPage ==
    (script = "track" /\ Returned /\ reason = "depth_limit" /\ clean)
    => /\ \A q \in 1..MaxPage : q > errPage => reqs[q] = 0
       /\ ckpt.kind = "full"
       /\ ckpt.page = errPage

\* C3: the checkpoint persisted after page p was processed holds the next
\* position: the page before it has been processed, the page it names has
\* not, so a resumed run starts at the first page not yet processed.
C3_CheckpointHoldsNextPosition ==
    (script = "track" /\ ckpt.kind = "full")
    => /\ ckpt.page - 1 \in everDone
       /\ ckpt.page \notin everDone

\* C4: a run restarted after a kill re-processes at most one page that had
\* been fully processed before the kill.
C4_AtMostOnePageReprocessed ==
    script = "track" => Cardinality(doneRun \cap doneBefore) <= 1

\* C5 as claimed: a persisted checkpoint with position p means every
\* matching record of page p has been handed to the sink, and the first
\* position a run requests is not beyond the smallest position that was
\* never fully processed.
C5_NoUnprocessedPageSkipped ==
    script = "track" =>
        /\ ckpt.kind = "full" => UltimateIds(coll, ckpt.page) \subseteq handed
        /\ firstReq # 0 => \A q \in 1..(firstReq - 1) : q \in everDone

\* C5, amended: a persisted checkpoint with position p means page p has been
\* fully processed and every matching record of it handed to the sink, and
\* every position before the first one a run requests was fully processed
\* or given up after retry exhaustion in an earlier run.
C5_AtLeastOncePageDelivery ==
    script = "track" =>
        /\ ckpt.kind = "full" =>
              /\ ckpt.page \in everDone
              /\ UltimateIds(coll, ckpt.page) \subseteq handed
        /\ firstReq # 0 =>
              \A q \in 1..(firstReq - 1) : q \in everDone \cup everAbandoned

\* a run resumed after a kill from a checkpoint whose page holds a matching
\* record, with a position before it that was given up
C5_Witness ==
    /\ script = "track"
    /\ runs > 1
    /\ doneBefore # {}
    /\ firstReq > 1
    /\ ckpt.kind = "full"
    /\ UltimateIds(coll, ckpt.page) # {}
    /\ \E q \in 1..(firstReq - 1) : q \in everAbandoned \ everDone

\* C6: retry exhaustion on a position never ends the scan (page-based and
\* cursor-based driver).
C6_RetryExhaustionNeverEndsScan ==
    reason # "retries_exhausted"

\* C7: an API error object other than the depth-limit one never ends the
\* scan: the position is retried or skipped.
C7_ApiErrorNeverEndsScan ==
    script = "track" => reason # "api_error"

\* C8: a response without result or items never ends the scan: the page is
\* retried or skipped.
C8_MalformedResponseNeverEndsScan ==
    script = "track" => reason # "malformed"

\* C9: after a fetched page shorter than the requested limit (an empty one
\* included) the page-based scan issues no further request.
C9_ShortPageEndsScan ==
    script = "track" => ~reqAfterShort

\* the first page of collection c that is shorter than the limit (0: none
\* among the positions the model requests)
FirstShortPage(c) ==
    LET S == {p \in 1..MaxPage : Len(Items(c, p)) < batch_size}
    IN IF S = {} THEN 0 ELSE CHOOSE p \in S : \A q \in S : p <= q

\* a run that started at page 1, in which no request raised and no sink
\* call failed, has returned
CleanRunFromStart == Returned /\ clean /\ firstReq = 1

----------------------------------------------------------------------------
(* Sink failures, replay, retries *)

\* the number of positions of sequence s that hold x
Count(s, x) == Cardinality({i \in 1..Len(s) : s[i] = x})

\* C11: a failing sink call never causes a page to be fetched again: in a
\* run of scripts/track_ultimate_nfts.py or fetch_ultimate_nfts.py in which
\* no request failed, every position is requested at most once.
C11_SinkFailureNeverRefetches ==
    (/\ script \in {"track", "fetch"}
     /\ \A p \in 1..MaxPage : fails[p] = 0)
    => \A p \in 1..MaxPage : reqs[p] <= 1

\* C12: a Match whose sink write failed is dropped for the rest of the run:
\* the sink is not called again for that asset, and no asset is written
\* twice in one run.
C12_FailedMatchIsDropped ==
    script \in {"track", "fetch"} =>
        \A i, j \in 1..Len(sinkLog) :
            i < j =>
                /\ sinkLog[i][2] = "failed" => sinkLog[j][1] # sinkLog[i][1]
                /\ sinkLog[i][2] = "written" => sinkLog[j] # sinkLog[i]

\* C13: with scripts/track_ultimate_nfts.py as the only writer, replaying a
\* page against add_ultimate_nft_to_sheet leaves one row per matching asset:
\* no asset id has two rows, every row is an asset that was handed to the
\* sink, and a sink call for an id already in the sheet wrote nothing (the
\* sheet has as many rows as sink calls that wrote).
C13_ReplayLeavesOneRowPerAsset ==
    script = "track" =>
        /\ \A i, j \in 1..Len(sheet) : sheet[i] = sheet[j] => i = j
        /\ \A i \in 1..Len(sheet) : sheet[i] \in handed
        /\ \A k \in 1..Len(sinkLog) :
              sinkLog[k][2] = "skip" => Count(sheet, sinkLog[k][1]) = 1

\* a run resumed after a kill has processed again a page that was processed
\* before the kill, and the sink skipped the matching asset of that page
C13_Witness ==
    /\ script = "track"
    /\ runs = 2
    /\ \E p \in doneRun \cap doneBefore :
          \E a \in UltimateIds(coll, p) :
              /\ Count(sinkLog, <<a, "skip">>) = 1
              /\ Count(sheet, a) = 1

\* C14: after any runs of a script that appends to the 'ultimates' sheet the
\* sheet holds at most one row per asset id.
C14_LedgerHasOneRowPerAsset ==
    \A a \in handed : Count(sheet, a) <= 1

\* C15: within one run of scripts/track_ultimate_nfts.py the positions
\* written by save_checkpoint are strictly increasing.
C15_SavedPositionsStrictlyIncrease ==
    script = "track" =>
        \A i, j \in 1..Len(savedRun) : i < j => savedRun[i] < savedRun[j]

\* a run saved two checkpoints with a page between them that was given up
\* after three failed requests
C15_Witness ==
    /\ script = "track"
    /\ Len(savedRun) >= 2
    /\ \E i \in 1..(Len(savedRun) - 1) :
          \E q \in everAbandoned : savedRun[i] < q /\ q < savedRun[i + 1]

\* C16: a page of scripts/track_ultimate_nfts.py whose request raised once
\* or twice and then returned records is processed exactly once, one
\* checkpoint is written for it and each matching record is emitted once;
\* while only failed attempts have been made for a page, no checkpoint was
\* written for it and nothing of it was emitted.
C16_RetriedPageProcessedOnce ==
    script = "track" =>
        \A p \in 1..MaxPage :
            /\ (/\ fails[p] \in {1, 2}
                /\ reqs[p] = fails[p] + 1
                /\ Items(coll, p) # << >>
                /\ page > p)
               => /\ Count(doneLog, p) = 1
                  /\ Count(savedRun, p) = 1
                  /\ \A k \in 1..Len(Items(coll, p)) :
                        Count(emitLog, <<p, Items(coll, p)[k].id>>)
                          = IF Items(coll, p)[k].id \in UltimateIds(coll, p)
                            THEN 1 ELSE 0
            /\ (fails[p] > 0 /\ reqs[p] = fails[p])
               => /\ Count(savedRun, p) = 0
                  /\ Count(doneLog, p) = 0
                  /\ \A k \in 1..Len(emitLog) : emitLog[k][1] # p

\* the request for a page holding a matching record raised twice, the third
\* attempt returned the page, it was processed and its checkpoint written
C16_Witness ==
    /\ script = "track"
    /\ \E p \in 1..MaxPage :
          /\ fails[p] = 2
          /\ reqs[p] = 3
          /\ page > p
          /\ UltimateIds(coll, p) # {}
          /\ Count(savedRun, p) = 1
          /\ ckpt = CheckpointFile(p, last_date)

\* C17: in a single run no position is requested more than 3 times
\* (page-based and cursor-based driver).
C17_RetryIsBounded ==
    script \in {"track", "fetch"} =>
        \A p \in 1..MaxPage : reqs[p] <= max_retries

----------------------------------------------------------------------------
(* The rarity filter *)

\* the attribute list holds {trait_type: rarity, value: ultimate}, compared
\* without regard to letter case
HasRarityUltimate(attrs) ==
    \E i \in 1..Len(attrs) :
        /\ Lower(attrs[i].trait_type) = "rarity"
        /\ Lower(attrs[i].value) = "ultimate"

\* the attribute list holds an attribute whose trait type is rarity,
\* compared without regard to letter case
HasRarity(attrs) ==
    \E i \in 1..Len(attrs) : Lower(attrs[i].trait_type) = "rarity"

\* no sink call of this run failed
NoSinkFailure == \A k \in 1..Len(sinkLog) : sinkLog[k][2] # "failed"

\* C18: every scan variant produces exactly one Match for every asset of a
\* processed page whose attributes hold {rarity, ultimate} in any letter
\* case, whatever other attributes the asset has.
C18_CaseInsensitiveMatchOnce ==
    NoSinkFailure =>
        \A p \in doneRun :
            \A k \in 1..Len(Items(coll, p)) :
                HasRarityUltimate(Items(coll, p)[k].attributes)
                => Count(emitLog, <<p, Items(coll, p)[k].id>>) = 1

\* C19: an asset contributes at most one Match per processing of its page,
\* even when several of its attributes satisfy the filter.
C19_AtMostOneMatchPerAsset ==
    NoSinkFailure =>
        \A p \in doneRun :
            \A k \in 1..Len(Items(coll, p)) :
                Count(emitLog, <<p, Items(coll, p)[k].id>>) <= 1

\* the ids of the assets of collection c that have no rarity attribute
NoRarityIds(c) ==
    UNION {{Items(c, p)[k].id : k \in {n \in 1..Len(Items(c, p)) :
                                         ~HasRarity(Items(c, p)[n].attributes)}}
           : p \in 1..MaxPage}

\* C20: an asset without a rarity attribute (compared without regard to
\* letter case) never produces a Match and the sink is never called for it,
\* in any scan variant.
C20_NoRarityNoMatch ==
    \A a \in NoRarityIds(coll) :
        /\ \A k \in 1..Len(emitLog) : emitLog[k][2] # a
        /\ \A k \in 1..Len(sinkLog) : sinkLog[k][1] # a
        /\ a \notin handed
        /\ \A i \in 1..Len(sheet) : sheet[i] # a

\* a page holding an asset whose only attribute has the value 'Ultimate'
\* under another trait type has been processed, next to a page with Matches
C20_Witness ==
    /\ emitLog # << >>
    /\ \E p \in doneRun :
          \E k \in 1..Len(Items(coll, p)) :
              LET attrs == Items(coll, p)[k].attributes
              IN /\ ~HasRarity(attrs)
                 /\ \E i \in 1..Len(attrs) : Lower(attrs[i].value) = "ultimate"

----------------------------------------------------------------------------
(* The checkpoint file *)

\* C21: load_checkpoint never observes an empty or partially written
\* checkpoint file, even after a kill in the middle of save_checkpoint.
C21_LoadNeverSeesPartialFile ==
    (script = "track" /\ pc = "load") => ckpt.kind # "truncated"

\* C22: load_checkpoint returns (1, None) when there is no checkpoint file
\* and otherwise the (page, last_date) pair of the last completed
\* save_checkpoint: it always returns, and right after it page and last_date
\* are that pair.
C22_LoadReturnsLastSave ==
    script = "track" =>
        /\ outcome # "crashed"
        /\ (pc = "request" /\ firstReq = 0)
           => <<page, last_date>> = IF ckpt.kind = "absent" THEN <<1, None>>
                                    ELSE lastSave

----------------------------------------------------------------------------
(* Concurrent writers *)

\* C23: the check and the append of add_ultimate_nft_to_sheet are separate
\* steps: an address gets a second row only with two writers that both read
\* the sheet before either appended, and an address never has more rows than
\* there are concurrent writers; with a single writer it has at most one.
C23_DuplicateOnlyByConcurrentWriters ==
    \A a \in Addresses :
        /\ Count(sheet, a) <= writers
        /\ Count(sheet, a) >= 2 => a \in raced

\* two writers both read the sheet before either appended, and the address
\* has two rows
C23_Witness ==
    /\ writers = 2
    /\ \E a \in Addresses : a \in raced /\ Count(sheet, a) = 2

----------------------------------------------------------------------------
(* Termination and counters *)

\* C24: every run of the page-based scan fetch_nfts_from_collection
\* eventually returns to main, whatever requests fail.
C24_ScanEventuallyReturns ==
    (script = "track" /\ pc = "request") ~> (pc = "cleanup")

\* the sum of the sizes of the pages of collection c at the positions S
RECURSIVE SumSizes(_, _)
SumSizes(c, S) ==
    IF S = {} THEN 0
    ELSE LET p == CHOOSE q \in S : TRUE
         IN Len(Items(c, p)) + SumSizes(c, S \ {p})

\* C25: when fetch_ultimate_nfts.py ends, total_processed is the sum of the
\* sizes of the distinct pages fetched successfully and ultimate_found is
\* the number of rows appended to the sheet in that run.
C25_CountersExactAtTermination ==
    (script = "fetch" /\ Returned)
    => /\ nAll = SumSizes(coll, fetched)
       /\ found = Cardinality({k \in 1..Len(sinkLog) : sinkLog[k][2] = "written"})
====
